---- MODULE Spec2Model ----
(***************************************************************************)
(* fgt-webhook-shaper (src/app.py): a Flask webhook that enables a         *)
(* FortiGate shaping policy on playback_start / playback_resume, disables  *)
(* it 120 s after playback_pause / playback_stop unless a resume cancels   *)
(* the wait, and disables it after 7200 s without any event.               *)
(*                                                                         *)
(* Threads: one per request (webhook), one per scheduled disable           *)
(* (delayed_disable), one watchdog (check_inactivity).  Shared state:      *)
(* last_event_time (a datetime) and resume_event (a threading.Event).      *)
(*                                                                         *)
(* Time is a global clock in whole seconds.  A thread that is not asleep   *)
(* in time.sleep and not blocked in ssh_execute_command takes its next     *)
(* step before the clock moves on (its Python steps take far less than a   *)
(* second); steps of different threads at one instant interleave in every  *)
(* order.  A call of ssh_execute_command lasts 0..MaxSshDelay seconds.     *)
(***************************************************************************)
EXTENDS Integers, Sequences, FiniteSets, TLC

VARIABLES
    now,              \* datetime.now(), seconds since the module was loaded
    last_event_time,  \* global last_event_time (line 56)
    resume_event,     \* resume_event.is_set() (line 57)
    tasks,            \* the delayed_disable threads, in spawn order
    handlers,         \* webhook threads blocked in the enable ssh call
    watchdog,         \* the check_inactivity thread
    notifs,           \* requests handed to webhook() so far
    exchange,         \* the request last received or answered, as webhook()
                      \* read it, and its response (status 0: none yet)
    enable_calls,     \* calls of the enable command so far
    disable_calls,    \* calls of the disable command so far
    wd_fires,         \* the watchdog's disable calls, one record per call
    resumed_early,    \* per task: an enable came < 120 s after its spawn
    covered           \* per task: Waiting at the latest notification, an enable

vars == <<now, last_event_time, resume_event, tasks, handlers, watchdog,
          notifs, exchange, enable_calls, disable_calls, wd_fires,
          resumed_early, covered>>

\* the state shared between the threads, and the threads there are
shared == <<last_event_time, resume_event, tasks, handlers, watchdog,
            enable_calls, disable_calls, wd_fires>>

(* ------------------------------ constants ------------------------------ *)

delay_seconds == 120

inactivity_seconds == 7200

check_period == 300

(* -------------------------------- bounds ------------------------------- *)

MaxNotifs == 3

MaxTasks == 2

MaxSshDelay == 1

ArrivalSlack == 0

MaxWdFires == 2
FullNotifs == 2

DebounceHorizon == delay_seconds + ArrivalSlack + MaxSshDelay + 1

WatchdogHorizon ==
    MaxWdFires * (inactivity_seconds + MaxSshDelay) + check_period + 1

(* ------------------------------- requests ------------------------------ *)

WEBHOOK_TOKEN == "secret"

Tokens == {"none", "wrong", "secret"}

\* request.get_json(silent=True): None, {}, an object without 'event', a JSON
\* number, an object with 'event'
Bodies == {"unparsable", "empty", "no_event", "number", "event"}

EventStrings == {"playback_start", "playback_resume", "playback_pause",
                 "playback_stop", "PLAYBACK_STOP", "Playback_Resume",
                 "library_new"}

WanStrings == {"absent", "0", "1", "2", "abc"}

Requests == [token : Tokens, body : Bodies,
             event : EventStrings, wan_streams : WanStrings]

\* str.lower() on the event names that occur
Lower(s) ==
    CASE s = "PLAYBACK_STOP" -> "playback_stop"
      [] s = "Playback_Resume" -> "playback_resume"
      [] OTHER -> s

\* request_data.get('wan_streams', 0), then int(), 0 on ValueError/TypeError
ParseWanStreams(s) ==
    CASE s = "absent" -> 0
      [] s = "0" -> 0
      [] s = "1" -> 1
      [] s = "2" -> 2
      [] OTHER -> 0

\* variant: any token that is present passes
AuthorizedAnyToken(req) == req.token # "none"

Authorized(req) == req.token # "none" /\ req.token = WEBHOOK_TOKEN

\* line 159: not request_data
Falsy(body) == body \in {"unparsable", "empty"}

\* line 159: 'event' not in request_data raises TypeError on a number
MembershipRaises(body) == ~Falsy(body) /\ body = "number"

\* line 159: the request passes the check
WellFormed(req) ==
    /\ ~Falsy(req.body)
    /\ ~MembershipRaises(req.body)
    /\ req.body = "event"

\* what webhook() read from a request before it answered
Read(req) ==
    [token |-> req.token,
     body |-> IF Authorized(req) THEN req.body ELSE "unread",
     event |-> IF Authorized(req) /\ WellFormed(req)
               THEN Lower(req.event) ELSE "unread",
     wan_streams |-> IF Authorized(req) /\ WellFormed(req)
                     THEN ParseWanStreams(req.wan_streams) ELSE 0]

\* jsonify(...), status; executor is the outcome of the command it reports
Reply(status, msg, executor) ==
    [status |-> status, msg |-> msg, executor |-> executor]

NoExchange == [request |-> [token |-> "none", body |-> "unread",
                         event |-> "unread", wan_streams |-> 0],
            reply |-> Reply(0, "none", "none")]

(* -------------------------------- state -------------------------------- *)

Init ==
    /\ now = 0
    /\ last_event_time = 0
    /\ resume_event = FALSE
    /\ tasks = <<>>
    /\ handlers = <<>>
    /\ watchdog = [pc |-> "sleep", remaining |-> check_period, ssh_age |-> 0]
    /\ notifs = 0
    /\ exchange = NoExchange
    /\ enable_calls = 0
    /\ disable_calls = 0
    /\ wd_fires = <<>>
    /\ resumed_early = <<>>
    /\ covered = <<>>

(* ------------------------- webhook() (line 147) ------------------------ *)

\* variant: playback_resume is not an enable event
IsEnableEventStartOnly(event) == event = "playback_start"

\* variant: every event that is not a pause or a stop takes the enable branch
IsEnableEventElse(event) == event \notin {"playback_pause", "playback_stop"}

IsEnableEvent(event) == event \in {"playback_start", "playback_resume"}

\* variant: playback_pause with the threshold of playback_stop
PauseSkipsAtOne(wan_streams) == wan_streams >= 1

PauseSkips(wan_streams) == wan_streams > 1

\* variant: playback_stop with the threshold of playback_pause
StopSkipsAboveOne(wan_streams) == wan_streams > 1

StopSkips(wan_streams) == wan_streams >= 1

Waiting(t) == t.pc \in {"start", "poll", "sleep"}

Received(req) ==
    /\ notifs < MaxNotifs
    /\ notifs' = notifs + 1

\* lines 150-153
Unauthorized(req) ==
    /\ Received(req)
    /\ ~Authorized(req)
    /\ exchange' = [request |-> Read(req),
                      reply |-> Reply(401, "Unauthorized", "none")]
    /\ UNCHANGED <<now, shared, resumed_early, covered>>

\* lines 155-161
Invalid(req) ==
    /\ Received(req)
    /\ Authorized(req)
    /\ ~MembershipRaises(req.body)
    /\ ~WellFormed(req)
    /\ exchange' = [request |-> Read(req),
                      reply |-> Reply(400, "Invalid request", "none")]
    /\ UNCHANGED <<now, shared, resumed_early, covered>>

\* line 159 raises: Flask answers 500 Internal Server Error
Raises(req) ==
    /\ Received(req)
    /\ Authorized(req)
    /\ MembershipRaises(req.body)
    /\ exchange' = [request |-> Read(req),
                    reply |-> Reply(500, "Internal Server Error", "none")]
    /\ UNCHANGED <<now, shared, resumed_early, covered>>

\* variant: last_event_time is left as it was
AcceptedNoStamp(req) ==
    /\ Received(req)
    /\ Authorized(req)
    /\ WellFormed(req)
    /\ UNCHANGED last_event_time

Accepted(req) ==
    /\ Received(req)
    /\ Authorized(req)
    /\ WellFormed(req)
    /\ last_event_time' = now

\* lines 173-187: set the flag and start the enable command
Enable(req) ==
    /\ Accepted(req)
    /\ IsEnableEvent(Lower(req.event))
    /\ resume_event' = TRUE
    /\ enable_calls' = enable_calls + 1
    /\ handlers' = Append(handlers, [request |-> Read(req), ssh_age |-> 0])
    /\ resumed_early' =
           [i \in DOMAIN tasks |->
               resumed_early[i] \/ now < tasks[i].spawned_at + delay_seconds]
    /\ covered' = [i \in DOMAIN tasks |-> Waiting(tasks[i])]
    /\ exchange' = [request |-> Read(req), reply |-> Reply(0, "none", "none")]
    /\ UNCHANGED <<now, tasks, watchdog, disable_calls, wd_fires>>

\* variant: the outcome of the command is not looked at
EnableReplyAlwaysOk(ok) ==
    Reply(200, "executed successfully", IF ok THEN "success" ELSE "failed")

\* lines 188-191
EnableReply(ok) ==
    IF ok THEN Reply(200, "executed successfully", "success")
          ELSE Reply(500, "error", "failed")

\* lines 187-191: the enable command returns, and webhook() with it
EnableReturn(i, ok) ==
    /\ i \in DOMAIN handlers
    /\ exchange' = [request |-> handlers[i].request,
                      reply |-> EnableReply(ok)]
    /\ handlers' = [j \in 1..(Len(handlers) - 1) |->
                       IF j < i THEN handlers[j] ELSE handlers[j + 1]]
    /\ UNCHANGED <<now, last_event_time, resume_event, tasks, watchdog,
                   notifs, enable_calls, disable_calls, wd_fires,
                   resumed_early, covered>>

\* variant: webhook() runs the disable command itself, no thread
SpawnAndDisable(event, wan_streams) ==
    /\ Len(tasks) < MaxTasks
    /\ tasks' = Append(tasks,
                       [event |-> event, wan_streams |-> wan_streams,
                        pc |-> "ssh", elapsed |-> 0, ssh_age |-> 0,
                        spawned_at |-> now, flag_at_spawn |-> resume_event,
                        disable_calls |-> 1,
                        result |-> "none"])
    /\ resumed_early' = Append([i \in DOMAIN tasks |-> resumed_early[i]], FALSE)
    /\ covered' = Append([i \in DOMAIN tasks |-> FALSE], FALSE)
    /\ disable_calls' = disable_calls + 1

\* threading.Thread(target=delayed_disable, args=(event, wan_streams)).start()
Spawn(event, wan_streams) ==
    /\ Len(tasks) < MaxTasks
    /\ tasks' = Append(tasks,
                       [event |-> event, wan_streams |-> wan_streams,
                        pc |-> "start", elapsed |-> 0, ssh_age |-> 0,
                        spawned_at |-> now, flag_at_spawn |-> resume_event,
                        disable_calls |-> 0,
                        result |-> "none"])
    /\ resumed_early' = Append([i \in DOMAIN tasks |-> resumed_early[i]], FALSE)
    /\ covered' = Append([i \in DOMAIN tasks |-> FALSE], FALSE)
    /\ UNCHANGED disable_calls

Ignore ==
    /\ covered' = [i \in DOMAIN tasks |-> FALSE]
    /\ UNCHANGED <<tasks, resumed_early, disable_calls>>

\* lines 193-200
Pause(req) ==
    /\ Accepted(req)
    /\ Lower(req.event) = "playback_pause"
    /\ LET wan_streams == ParseWanStreams(req.wan_streams) IN
       IF PauseSkips(wan_streams)
       THEN /\ Ignore
            /\ exchange' = [request |-> Read(req),
                              reply |-> Reply(200, "ignored due to active wan_streams",
                                              "none")]
       ELSE /\ Spawn("playback_pause", wan_streams)
            /\ exchange' = [request |-> Read(req),
                              reply |-> Reply(200, "scheduled", "none")]
    /\ UNCHANGED <<now, resume_event, handlers, watchdog, enable_calls, wd_fires>>

\* lines 202-209
Stop(req) ==
    /\ Accepted(req)
    /\ Lower(req.event) = "playback_stop"
    /\ LET wan_streams == ParseWanStreams(req.wan_streams) IN
       IF StopSkips(wan_streams)
       THEN /\ Ignore
            /\ exchange' = [request |-> Read(req),
                              reply |-> Reply(200, "ignored due to active wan_streams",
                                              "none")]
       ELSE /\ Spawn("playback_stop", wan_streams)
            /\ exchange' = [request |-> Read(req),
                              reply |-> Reply(200, "scheduled", "none")]
    /\ UNCHANGED <<now, resume_event, handlers, watchdog, enable_calls, wd_fires>>

\* lines 211-213
Unhandled(req) ==
    /\ Accepted(req)
    /\ ~IsEnableEvent(Lower(req.event))
    /\ Lower(req.event) \notin {"playback_pause", "playback_stop"}
    /\ Ignore
    /\ exchange' = [request |-> Read(req),
                      reply |-> Reply(200, "ignored", "none")]
    /\ UNCHANGED <<now, resume_event, handlers, watchdog, enable_calls, wd_fires>>

Webhook(req) ==
    \/ Unauthorized(req)
    \/ Invalid(req)
    \/ Raises(req)
    \/ Enable(req)
    \/ Pause(req)
    \/ Stop(req)
    \/ Unhandled(req)

(* --------------------- delayed_disable() (line 112) -------------------- *)

\* variant: the loop ends one wait early
LoopContinuesOneShort(elapsed) == elapsed < delay_seconds - 1

LoopContinues(elapsed) == elapsed < delay_seconds

TaskFrame ==
    UNCHANGED <<now, last_event_time, handlers, watchdog, notifs, exchange, enable_calls, wd_fires, resumed_early, covered>>

\* variant: the flag is set, not cleared, when a task starts
TaskStartSetsFlag(i) ==
    /\ i \in DOMAIN tasks
    /\ tasks[i].pc = "start"
    /\ resume_event' = TRUE
    /\ tasks' = [tasks EXCEPT ![i].pc = "poll"]
    /\ UNCHANGED disable_calls
    /\ TaskFrame

\* line 115: resume_event.clear()
TaskStart(i) ==
    /\ i \in DOMAIN tasks
    /\ tasks[i].pc = "start"
    /\ resume_event' = FALSE
    /\ tasks' = [tasks EXCEPT ![i].pc = "poll"]
    /\ UNCHANGED disable_calls
    /\ TaskFrame

\* lines 120-123: the flag is seen set, the task returns
TaskCancel(i) ==
    /\ i \in DOMAIN tasks
    /\ tasks[i].pc = "poll"
    /\ LoopContinues(tasks[i].elapsed)
    /\ resume_event
    /\ tasks' = [tasks EXCEPT ![i].pc = "cancelled"]
    /\ UNCHANGED resume_event
    /\ UNCHANGED disable_calls
    /\ TaskFrame

\* lines 120-124: the flag is seen clear, time.sleep(1) begins
TaskSleep(i) ==
    /\ i \in DOMAIN tasks
    /\ tasks[i].pc = "poll"
    /\ LoopContinues(tasks[i].elapsed)
    /\ ~resume_event
    /\ tasks' = [tasks EXCEPT ![i].pc = "sleep"]
    /\ UNCHANGED resume_event
    /\ UNCHANGED disable_calls
    /\ TaskFrame

\* lines 120, 128-140: the loop ends, the disable command is started
TaskDisable(i) ==
    /\ i \in DOMAIN tasks
    /\ tasks[i].pc = "poll"
    /\ ~LoopContinues(tasks[i].elapsed)
    /\ tasks' = [tasks EXCEPT ![i].pc = "ssh",
                              ![i].ssh_age = 0,
                              ![i].disable_calls = @ + 1]
    /\ disable_calls' = disable_calls + 1
    /\ UNCHANGED resume_event
    /\ TaskFrame

\* variant: a failed disable command is tried once more
TaskReturnRetries(i, ok) ==
    /\ i \in DOMAIN tasks
    /\ tasks[i].pc = "ssh"
    /\ IF ok \/ tasks[i].disable_calls > 1
       THEN /\ tasks' = [tasks EXCEPT
                            ![i].pc = "expired",
                            ![i].result = IF ok THEN "success" ELSE "failed"]
            /\ UNCHANGED disable_calls
       ELSE /\ tasks' = [tasks EXCEPT ![i].ssh_age = 0,
                                      ![i].disable_calls = @ + 1]
            /\ disable_calls' = disable_calls + 1
    /\ UNCHANGED resume_event
    /\ TaskFrame

\* lines 140-144: the disable command returns, the outcome is logged
TaskReturn(i, ok) ==
    /\ i \in DOMAIN tasks
    /\ tasks[i].pc = "ssh"
    /\ tasks' = [tasks EXCEPT ![i].pc = "expired",
                              ![i].result = IF ok THEN "success" ELSE "failed"]
    /\ UNCHANGED resume_event
    /\ UNCHANGED disable_calls
    /\ TaskFrame

(* -------------------- check_inactivity() (line 85) --------------------- *)

\* variant: the period of the checks taken for the inactivity limit
InactivityExpiredAtPeriod(elapsed_time) == elapsed_time >= check_period

InactivityExpired(elapsed_time) == elapsed_time >= inactivity_seconds

WatchdogFrame ==
    UNCHANGED <<now, resume_event, tasks, handlers, notifs, exchange, enable_calls, resumed_early, covered>>

\* variant: no disable command while the flag is set
WatchdogCheckUnlessResumed ==
    /\ watchdog.pc = "check"
    /\ LET elapsed_time == now - last_event_time IN
       IF InactivityExpired(elapsed_time) /\ ~resume_event
       THEN /\ watchdog' = [watchdog EXCEPT !.pc = "ssh", !.ssh_age = 0]
            /\ wd_fires' = Append(wd_fires,
                                  [at |-> now, elapsed_time |-> elapsed_time,
                                   result |-> "running", reset_at |-> 0])
            /\ disable_calls' = disable_calls + 1
       ELSE /\ watchdog' = [watchdog EXCEPT !.pc = "sleep",
                                            !.remaining = check_period]
            /\ UNCHANGED <<wd_fires, disable_calls>>
    /\ UNCHANGED last_event_time
    /\ WatchdogFrame

\* lines 89-105: time.sleep(300) is over; compare, and start the disable command
WatchdogCheck ==
    /\ watchdog.pc = "check"
    /\ LET elapsed_time == now - last_event_time IN
       IF InactivityExpired(elapsed_time)
       THEN /\ watchdog' = [watchdog EXCEPT !.pc = "ssh", !.ssh_age = 0]
            /\ wd_fires' = Append(wd_fires,
                                  [at |-> now, elapsed_time |-> elapsed_time,
                                   result |-> "running", reset_at |-> 0])
            /\ disable_calls' = disable_calls + 1
       ELSE /\ watchdog' = [watchdog EXCEPT !.pc = "sleep",
                                            !.remaining = check_period]
            /\ UNCHANGED <<wd_fires, disable_calls>>
    /\ UNCHANGED last_event_time
    /\ WatchdogFrame

\* variant: last_event_time is not reset after the command
WatchdogReturnNoReset(ok) ==
    /\ watchdog.pc = "ssh"
    /\ UNCHANGED last_event_time
    /\ wd_fires' = [wd_fires EXCEPT
                       ![Len(wd_fires)].result = IF ok THEN "success" ELSE "failed",
                       ![Len(wd_fires)].reset_at = now]
    /\ watchdog' = [watchdog EXCEPT !.pc = "sleep", !.remaining = check_period]
    /\ UNCHANGED disable_calls
    /\ WatchdogFrame

\* variant: last_event_time is reset only when the command succeeded
WatchdogReturnResetOnSuccess(ok) ==
    /\ watchdog.pc = "ssh"
    /\ last_event_time' = IF ok THEN now ELSE last_event_time
    /\ wd_fires' = [wd_fires EXCEPT
                       ![Len(wd_fires)].result = IF ok THEN "success" ELSE "failed",
                       ![Len(wd_fires)].reset_at = now]
    /\ watchdog' = [watchdog EXCEPT !.pc = "sleep", !.remaining = check_period]
    /\ UNCHANGED disable_calls
    /\ WatchdogFrame

\* lines 105-110: the disable command returns; last_event_time = datetime.now()
WatchdogReturn(ok) ==
    /\ watchdog.pc = "ssh"
    /\ last_event_time' = now
    /\ wd_fires' = [wd_fires EXCEPT
                       ![Len(wd_fires)].result = IF ok THEN "success" ELSE "failed",
                       ![Len(wd_fires)].reset_at = now]
    /\ watchdog' = [watchdog EXCEPT !.pc = "sleep", !.remaining = check_period]
    /\ UNCHANGED disable_calls
    /\ WatchdogFrame

(* --------------------------------- time -------------------------------- *)

\* no thread has a step to take at this instant
Quiescent ==
    /\ \A i \in DOMAIN tasks :
          /\ tasks[i].pc \notin {"start", "poll"}
          /\ tasks[i].pc = "ssh" => tasks[i].ssh_age < MaxSshDelay
    /\ \A i \in DOMAIN handlers : handlers[i].ssh_age < MaxSshDelay
    /\ watchdog.pc # "check"
    /\ watchdog.pc = "ssh" => watchdog.ssh_age < MaxSshDelay

\* one second passes: time.sleep(1) returns and elapsed += 1 (lines 124-125),
\* the watchdog's time.sleep(300) gets a second shorter (line 88)
Tick(horizon) ==
    /\ now < horizon
    /\ Quiescent
    /\ now' = now + 1
    /\ tasks' = [i \in DOMAIN tasks |->
                    CASE tasks[i].pc = "sleep" ->
                           [tasks[i] EXCEPT !.pc = "poll", !.elapsed = @ + 1]
                      [] tasks[i].pc = "ssh" ->
                           [tasks[i] EXCEPT !.ssh_age = @ + 1]
                      [] OTHER -> tasks[i]]
    /\ handlers' = [i \in DOMAIN handlers |->
                       [handlers[i] EXCEPT !.ssh_age = @ + 1]]
    /\ watchdog' =
          CASE watchdog.pc = "sleep" /\ watchdog.remaining = 1 ->
                 [watchdog EXCEPT !.pc = "check", !.remaining = 0]
            [] watchdog.pc = "sleep" /\ watchdog.remaining > 1 ->
                 [watchdog EXCEPT !.remaining = @ - 1]
            [] OTHER -> [watchdog EXCEPT !.ssh_age = @ + 1]
    /\ UNCHANGED <<last_event_time, resume_event, notifs, exchange, enable_calls, disable_calls, wd_fires, resumed_early, covered>>

(* ---------------------------- specifications --------------------------- *)

\* the instants at which requests arrive: around a task's start and its expiry
Arrival ==
    \/ now <= ArrivalSlack
    \/ now >= delay_seconds - 1 /\ now <= delay_seconds - 1 + ArrivalSlack

\* requests, their handlers and the delayed-disable tasks
Next ==
    \/ Arrival /\ \E req \in Requests : Webhook(req)
    \/ \E i \in DOMAIN handlers, ok \in BOOLEAN : EnableReturn(i, ok)
    \/ \E i \in DOMAIN tasks : TaskStart(i)
    \/ \E i \in DOMAIN tasks : TaskCancel(i)
    \/ \E i \in DOMAIN tasks : TaskSleep(i)
    \/ \E i \in DOMAIN tasks : TaskDisable(i)
    \/ \E i \in DOMAIN tasks, ok \in BOOLEAN : TaskReturn(i, ok)
    \/ Tick(DebounceHorizon)

Spec == Init /\ [][Next]_vars

\* the watchdog alone: no request arrives
NextWatchdog ==
    \/ WatchdogCheck
    \/ \E ok \in BOOLEAN : WatchdogReturn(ok)
    \/ Tick(WatchdogHorizon)

SpecWatchdog == Init /\ [][NextWatchdog]_vars

\* the instants at which requests arrive when the watchdog runs too: around
\* the watchdog's first 7200-second mark
ArrivalFull ==
    /\ now >= inactivity_seconds
    /\ now <= inactivity_seconds + ArrivalSlack

\* the requests that arrive then: one of each kind webhook() tells apart
RequestsFull ==
    {req \in Requests :
        /\ req.token \in {"wrong", "secret"}
        /\ req.body \in {"empty", "number", "event"}
        /\ req.event \in {"playback_start", "playback_pause",
                          "playback_stop", "library_new"}
        /\ req.wan_streams = "0"}

\* everything together: requests, handlers, tasks and the watchdog
NextFull ==
    \/ ArrivalFull /\ notifs < FullNotifs /\ \E req \in RequestsFull : Webhook(req)
    \/ \E i \in DOMAIN handlers, ok \in BOOLEAN : EnableReturn(i, ok)
    \/ \E i \in DOMAIN tasks : TaskStart(i)
    \/ \E i \in DOMAIN tasks : TaskCancel(i)
    \/ \E i \in DOMAIN tasks : TaskSleep(i)
    \/ \E i \in DOMAIN tasks : TaskDisable(i)
    \/ \E i \in DOMAIN tasks, ok \in BOOLEAN : TaskReturn(i, ok)
    \/ WatchdogCheck
    \/ \E ok \in BOOLEAN : WatchdogReturn(ok)
    \/ Tick(WatchdogHorizon)

SpecFull == Init /\ [][NextFull]_vars

(* -------------------------------- claims ------------------------------- *)

\* a step in which webhook() is handed a request
Dispatched == notifs' = notifs + 1

\* a step in which a webhook() blocked in the enable command returns
Returned == Len(handlers') < Len(handlers)

DisableCalled(i) == tasks[i].disable_calls > 0

\* C1: a delayed-disable task never calls the disable command once a
\* playback_start / playback_resume was dispatched less than 120 seconds
\* after the playback_pause / playback_stop that spawned it.
C1_ResumeWithin120NeverDisables ==
    \A i \in DOMAIN tasks : resumed_early[i] => ~DisableCalled(i)

\* C2: with a task spawned by a playback_pause and a later one spawned by a
\* playback_stop both waiting, one playback_start / playback_resume that no
\* other notification follows cancels both: neither calls the disable command.
C2_SingleResumeCancelsBoth ==
    ( /\ Len(tasks) = 2
      /\ tasks[1].event = "playback_pause"
      /\ tasks[2].event = "playback_stop"
      /\ covered[1]
      /\ covered[2] )
    => /\ ~DisableCalled(1)
       /\ ~DisableCalled(2)
       /\ tasks[1].pc \in {"start", "poll", "sleep", "cancelled"}
       /\ tasks[2].pc \in {"start", "poll", "sleep", "cancelled"}

\* C3: an authenticated, well-formed playback_start / playback_resume makes
\* exactly one enable call, inside webhook() and before its response, whatever
\* wan_streams is; no other step of the program makes an enable call.
C3_EnableOncePerStartResume ==
    [][ IF /\ Dispatched
           /\ exchange'.request.token = "secret"
           /\ exchange'.request.body = "event"
           /\ exchange'.request.event \in {"playback_start", "playback_resume"}
        THEN /\ enable_calls' = enable_calls + 1
             /\ Len(handlers') = Len(handlers) + 1
             /\ exchange'.reply.status = 0
        ELSE enable_calls' = enable_calls ]_vars

C3_Witness ==
    /\ exchange.request.event = "playback_resume"
    /\ exchange.request.wan_streams = 2
    /\ exchange.reply.status = 200
    /\ enable_calls = 1

\* C4: a playback_pause spawns a delayed-disable task iff wan_streams <= 1;
\* above that none is spawned and the response says the event is ignored.
C4_PauseSchedulesIffAtMostOne ==
    [][ ( /\ Dispatched
          /\ exchange'.request.event = "playback_pause" )
        => IF exchange'.request.wan_streams <= 1
           THEN /\ Len(tasks') = Len(tasks) + 1
                /\ tasks'[Len(tasks')].pc = "start"
                /\ exchange'.reply.msg = "scheduled"
           ELSE /\ tasks' = tasks
                /\ exchange'.reply.msg = "ignored due to active wan_streams" ]_vars

C4_Witness ==
    /\ \E i \in DOMAIN tasks :
          tasks[i].event = "playback_pause" /\ tasks[i].wan_streams = 1
    /\ exchange.request.event = "playback_pause"
    /\ exchange.request.wan_streams = 2
    /\ exchange.reply.msg = "ignored due to active wan_streams"

\* C5: a playback_stop spawns a delayed-disable task iff wan_streams < 1;
\* with wan_streams = 1 a playback_pause schedules and a playback_stop does not.
C5_StopSchedulesIffBelowOne ==
    [][ ( /\ Dispatched
          /\ exchange'.request.event = "playback_stop" )
        => IF exchange'.request.wan_streams < 1
           THEN /\ Len(tasks') = Len(tasks) + 1
                /\ tasks'[Len(tasks')].pc = "start"
                /\ exchange'.reply.msg = "scheduled"
           ELSE /\ tasks' = tasks
                /\ exchange'.reply.msg = "ignored due to active wan_streams" ]_vars

C5_Witness ==
    /\ Len(tasks) = 2
    /\ tasks[1].event = "playback_pause" /\ tasks[1].wan_streams = 1
    /\ tasks[2].event = "playback_stop" /\ tasks[2].wan_streams = 0
    /\ exchange.request.event = "playback_stop"
    /\ exchange.request.wan_streams = 1
    /\ exchange.reply.msg = "ignored due to active wan_streams"

\* C6: a task after whose spawn no playback_start / playback_resume is
\* dispatched (none in the 120 seconds it can be cancelled in) is never
\* cancelled, even if the flag was set when it was spawned; it counts one
\* second per wait, calls the disable command once, after 120 waits and not
\* before 120 seconds have passed, and has called it once the 120th second
\* is over.
C6_UncancelledTaskDisablesAfter120 ==
    \A i \in DOMAIN tasks :
        ~resumed_early[i] =>
            /\ tasks[i].pc # "cancelled"
            /\ tasks[i].disable_calls <= 1
            /\ tasks[i].pc \in {"ssh", "expired"} <=> tasks[i].disable_calls = 1
            /\ tasks[i].disable_calls = 1 =>
                  /\ tasks[i].elapsed = 120
                  /\ now >= tasks[i].spawned_at + 120
            /\ tasks[i].disable_calls = 0 =>
                  tasks[i].elapsed = now - tasks[i].spawned_at
            /\ now > tasks[i].spawned_at + 120 => tasks[i].disable_calls = 1

C6_Witness ==
    \E i \in DOMAIN tasks :
        /\ tasks[i].flag_at_spawn
        /\ ~resumed_early[i]
        /\ tasks[i].pc = "expired"
        /\ tasks[i].disable_calls = 1
        /\ tasks[i].elapsed = 120

\* C7: with no request at all the watchdog calls the disable command when 7200
\* seconds have passed since last_event_time, once; when the call returns,
\* with success or failure, last_event_time is the time of the return; the
\* next call comes 7200 seconds after that and not before.
C7_WatchdogFiresEvery7200 ==
    /\ now < 7200 => wd_fires = <<>>
    /\ now > 7200 => Len(wd_fires) >= 1
    /\ \A k \in DOMAIN wd_fires :
          /\ wd_fires[k].elapsed_time = 7200
          /\ k = 1 => wd_fires[k].at = 7200
          /\ k > 1 => /\ wd_fires[k - 1].result \in {"success", "failed"}
                      /\ wd_fires[k].at = wd_fires[k - 1].reset_at + 7200
          /\ wd_fires[k].result = "running" =>
                /\ k = Len(wd_fires)
                /\ watchdog.pc = "ssh"
                /\ last_event_time = wd_fires[k].at - 7200
          /\ (k = Len(wd_fires) /\ wd_fires[k].result # "running") =>
                /\ last_event_time = wd_fires[k].reset_at
                /\ wd_fires[k].reset_at >= wd_fires[k].at
                /\ now <= wd_fires[k].reset_at + 7200

C7_Witness ==
    /\ Len(wd_fires) = 2
    /\ wd_fires[1].result = "failed"
    /\ wd_fires[2].result = "success"
    /\ last_event_time = wd_fires[2].reset_at

\* C8: a request without the token, or with a wrong one, is answered 401 and
\* changes nothing: not last_event_time, not the flag, no task, no command.
C8_UnauthorizedChangesNothing ==
    [][ ( /\ Dispatched
          /\ exchange'.request.token # "secret" )
        => /\ exchange'.reply.status = 401
           /\ UNCHANGED <<last_event_time, resume_event, tasks, handlers,
                          watchdog, enable_calls, disable_calls, wd_fires>> ]_vars

C8_Witness ==
    /\ exchange.request.token = "wrong"
    /\ exchange.reply.status = 401
    /\ Len(tasks) = 1
    /\ Len(handlers) = 1
    /\ resume_event

\* C9: an authenticated request whose body does not parse, or has no event
\* field, is answered 400 and changes nothing: not last_event_time, not the
\* flag, no task, no command.
C9_InvalidChangesNothing ==
    [][ ( /\ Dispatched
          /\ exchange'.request.token = "secret"
          /\ exchange'.request.body # "event" )
        => /\ exchange'.reply.status = 400
           /\ UNCHANGED <<last_event_time, resume_event, tasks, handlers,
                          watchdog, enable_calls, disable_calls, wd_fires>> ]_vars

\* C10: webhook() sets the flag before the enable call; its response is a
\* success (200) iff that call succeeded and a failure (500) iff it failed;
\* returning, it makes no further enable call and leaves the flag as it is.
C10_EnableReplyIsCallOutcome ==
    [][ /\ ( /\ Dispatched
             /\ exchange'.request.event \in {"playback_start", "playback_resume"} )
           => resume_event'
        /\ Returned
           => /\ exchange'.request.event \in {"playback_start", "playback_resume"}
              /\ exchange'.reply.executor \in {"success", "failed"}
              /\ exchange'.reply.status = 200 <=> exchange'.reply.executor = "success"
              /\ exchange'.reply.status = 500 <=> exchange'.reply.executor = "failed"
              /\ enable_calls' = enable_calls
              /\ Len(handlers') = Len(handlers) - 1
              /\ resume_event' = resume_event ]_vars

C10_Witness ==
    /\ exchange.request.event = "playback_start"
    /\ exchange.reply.status = 500
    /\ exchange.reply.executor = "failed"
    /\ enable_calls = 1
    /\ handlers = <<>>
    /\ resume_event

\* C11: a playback_pause / playback_stop that schedules is answered 200
\* "scheduled" in the step that spawns its task, while the task is at its
\* start; webhook() makes no disable call, neither then nor when it returns
\* from an enable call; no step of a task changes the response given.
C11_ScheduledWithoutWaiting ==
    [][ /\ ( /\ Dispatched
             /\ \/ /\ exchange'.request.event = "playback_pause"
                   /\ exchange'.request.wan_streams <= 1
                \/ /\ exchange'.request.event = "playback_stop"
                   /\ exchange'.request.wan_streams < 1 )
           => /\ exchange'.reply = [status |-> 200, msg |-> "scheduled",
                                    executor |-> "none"]
              /\ Len(tasks') = Len(tasks) + 1
              /\ tasks'[Len(tasks')].pc = "start"
              /\ tasks'[Len(tasks')].disable_calls = 0
              /\ \A i \in DOMAIN tasks : tasks'[i] = tasks[i]
              /\ handlers' = handlers
        /\ (Dispatched \/ Returned) => disable_calls' = disable_calls
        /\ (~Dispatched /\ ~Returned) => exchange' = exchange ]_vars

C11_Witness ==
    /\ notifs = 1
    /\ exchange.request.event = "playback_stop"
    /\ exchange.reply.msg = "scheduled"
    /\ Len(tasks) = 1
    /\ tasks[1].pc = "expired"
    /\ tasks[1].result = "failed"

\* C12: every request with the right token and a body that has an event sets
\* last_event_time to the current time in the step that dispatches it,
\* whatever the event: start, resume, pause and stop (scheduled or ignored
\* for their wan_streams) and any other event.
C12_AcceptedStampsIdleTime ==
    [][ ( /\ Dispatched
          /\ exchange'.request.token = "secret"
          /\ exchange'.request.body = "event" )
        => /\ last_event_time' = now
           /\ exchange'.request.event \in
                 {"playback_start", "playback_resume", "playback_pause",
                  "playback_stop", "library_new"} ]_vars

C12_Witness ==
    /\ now = 119
    /\ last_event_time = 119
    /\ exchange.request.event = "playback_stop"
    /\ exchange.request.wan_streams = 1
    /\ exchange.reply.msg = "ignored due to active wan_streams"
    /\ tasks = <<>>

\* C13: a request with an event other than start, resume, pause and stop is
\* answered "ignored" and changes last_event_time only; the flag is set only
\* in the dispatch of a start or a resume; a task is spawned only in the
\* dispatch of a pause or a stop.
C13_UnknownOnlyStamps ==
    [][ /\ ( /\ Dispatched
             /\ exchange'.request.token = "secret"
             /\ exchange'.request.body = "event"
             /\ exchange'.request.event \notin
                   {"playback_start", "playback_resume", "playback_pause",
                    "playback_stop"} )
           => /\ exchange'.reply = [status |-> 200, msg |-> "ignored",
                                    executor |-> "none"]
              /\ last_event_time' = now
              /\ UNCHANGED <<resume_event, tasks, handlers, watchdog,
                             enable_calls, disable_calls, wd_fires>>
        /\ (resume_event' /\ ~resume_event)
           => /\ Dispatched
              /\ exchange'.request.event \in {"playback_start", "playback_resume"}
        /\ Len(tasks') # Len(tasks)
           => /\ Dispatched
              /\ exchange'.request.event \in {"playback_pause", "playback_stop"}
              /\ Len(tasks') = Len(tasks) + 1 ]_vars

C13_Witness ==
    /\ exchange.request.event = "library_new"
    /\ exchange.reply.msg = "ignored"
    /\ last_event_time = 119
    /\ resume_event
    /\ Len(tasks) = 1
    /\ tasks[1].pc \in {"poll", "sleep"}

\* C14: as long as no playback_start / playback_resume has been dispatched,
\* no task is cancelled and each task, whatever tasks start after it, counts
\* one second per wait from its own spawn and calls the disable command once
\* when its own 120 seconds are over: the disable calls made are one per
\* task that has come that far.
C14_EachTaskDisablesOnce ==
    enable_calls = 0 =>
        /\ \A i \in DOMAIN tasks :
              /\ tasks[i].pc # "cancelled"
              /\ tasks[i].pc \in {"start", "poll", "sleep"} =>
                    /\ tasks[i].disable_calls = 0
                    /\ tasks[i].elapsed = now - tasks[i].spawned_at
                    /\ now <= tasks[i].spawned_at + 120
              /\ tasks[i].pc \in {"ssh", "expired"} =>
                    /\ tasks[i].disable_calls = 1
                    /\ tasks[i].elapsed = 120
                    /\ now >= tasks[i].spawned_at + 120
        /\ disable_calls =
              Cardinality({i \in DOMAIN tasks : tasks[i].pc \in {"ssh", "expired"}})

C14_Witness ==
    /\ enable_calls = 0
    /\ notifs = 2
    /\ Len(tasks) = 2
    /\ tasks[1].event = "playback_pause" /\ tasks[1].pc = "expired"
    /\ tasks[2].event = "playback_stop" /\ tasks[2].pc = "expired"
    /\ tasks[1].result = "failed"
    /\ disable_calls = 2

\* C15: a task that was waiting in its loop when a playback_start /
\* playback_resume set the flag, no notification following, makes no disable
\* call and is cancelled at its next poll, at most one second later; so also
\* when the flag is set during the task's last one-second wait.
C15_CancelSeenWithinOneSecond ==
    \A i \in DOMAIN tasks :
        ( /\ covered[i]
          /\ tasks[i].spawned_at < last_event_time )
        => /\ tasks[i].disable_calls = 0
           /\ tasks[i].pc \in {"poll", "sleep", "cancelled"}
           /\ now > last_event_time + 1 => tasks[i].pc = "cancelled"

\* C16: with requests arriving too, a check of the watchdog that finds less
\* than 7200 seconds since last_event_time makes no disable call and leaves
\* last_event_time alone; one that makes a disable call does so at least
\* 7200 seconds after the watchdog's previous call returned, whether that
\* call succeeded or failed.
C16_WatchdogCallsSpaced ==
    [][ ( /\ watchdog.pc = "check"
          /\ watchdog'.pc # "check" )
        => IF now - last_event_time < 7200
           THEN /\ watchdog'.pc = "sleep"
                /\ UNCHANGED <<last_event_time, wd_fires, disable_calls>>
           ELSE /\ watchdog'.pc = "ssh"
                /\ Len(wd_fires') = Len(wd_fires) + 1
                /\ disable_calls' = disable_calls + 1
                /\ wd_fires # <<>> =>
                      /\ wd_fires[Len(wd_fires)].result \in {"success", "failed"}
                      /\ now >= wd_fires[Len(wd_fires)].reset_at + 7200
                      /\ now >= wd_fires[Len(wd_fires)].at + 7200 ]_vars

C16_Witness ==
    /\ Len(wd_fires) = 2
    /\ wd_fires[1].result = "failed"
    /\ wd_fires[2].at >= wd_fires[1].reset_at + 7200
    /\ notifs = 2
    /\ resume_event

\* C17: a check of the watchdog that finds 7200 seconds or more since
\* last_event_time makes its disable call whether the flag is set or clear
\* and whatever the tasks are doing; no step of the watchdog, check or
\* return of the command, changes the flag or any task.
C17_WatchdogIgnoresFlagAndTasks ==
    [][ /\ ( /\ watchdog.pc = "check"
             /\ watchdog'.pc # "check"
             /\ now - last_event_time >= 7200 )
           => /\ Len(wd_fires') = Len(wd_fires) + 1
              /\ wd_fires'[Len(wd_fires')].at = now
              /\ watchdog'.pc = "ssh"
        /\ ( /\ watchdog.pc \in {"check", "ssh"}
             /\ watchdog'.pc # watchdog.pc )
           => UNCHANGED <<resume_event, tasks, handlers, enable_calls>> ]_vars

C17_Witness ==
    /\ watchdog.pc = "ssh"
    /\ resume_event
    /\ Len(wd_fires) = 1
    /\ wd_fires[1].at = 14400
    /\ wd_fires[1].result = "running"

\* C18: a task only goes from waiting (start, poll, sleep) to cancelled, or
\* through its one disable call to expired; cancelled and expired tasks never
\* change again and no task is removed or restarted; a cancelled task has made
\* no disable call, an expired one exactly one, also when that call failed;
\* no step of a task makes an enable call.
C18_TaskLifecycle ==
    [][ \A i \in DOMAIN tasks :
          /\ i \in DOMAIN tasks'
          /\ tasks'[i].spawned_at = tasks[i].spawned_at
          /\ \/ tasks'[i].pc = tasks[i].pc
             \/ <<tasks[i].pc, tasks'[i].pc>> \in
                   {<<"start", "poll">>, <<"poll", "sleep">>, <<"sleep", "poll">>,
                    <<"poll", "cancelled">>, <<"poll", "ssh">>,
                    <<"ssh", "expired">>}
          /\ tasks[i].pc \in {"cancelled", "expired"} => tasks'[i] = tasks[i]
          /\ tasks'[i].disable_calls =
                IF tasks'[i].pc \in {"ssh", "expired"} THEN 1 ELSE 0
          /\ tasks'[i].result \in {"success", "failed"} <=> tasks'[i].pc = "expired"
          /\ tasks'[i].pc # tasks[i].pc => enable_calls' = enable_calls ]_vars

C18_Witness ==
    /\ Len(tasks) = 2
    /\ tasks[1].pc = "cancelled"
    /\ tasks[1].disable_calls = 0
    /\ tasks[2].pc = "expired"
    /\ tasks[2].result = "failed"
    /\ tasks[2].disable_calls = 1
    /\ disable_calls = 1

\* C19: between the watchdog's check that found 7200 seconds without a
\* notification and the end of the disable command it then runs, no
\* playback_start / playback_resume makes its enable call, and when the
\* command ends there still is no notification in the 7200 seconds before.
C19_NoEnableDuringWatchdogDisable ==
    [][ watchdog.pc = "ssh"
        => /\ enable_calls' = enable_calls
           /\ watchdog'.pc # "ssh" => now - last_event_time >= 7200 ]_vars

\* C20: the disable command is called one call at a time, and only by a task
\* leaving its loop after 120 waits or by a check of the watchdog that finds
\* 7200 seconds or more since last_event_time; never by webhook(), neither
\* when it dispatches a request nor when it returns; the calls made never
\* outnumber the tasks spawned plus the watchdog's checks that fired.
C20_DisableOnlyByTaskOrWatchdog ==
    [][ /\ disable_calls' # disable_calls
           => /\ disable_calls' = disable_calls + 1
              /\ ~Dispatched
              /\ ~Returned
              /\ \/ /\ \E i \in DOMAIN tasks :
                          /\ tasks[i].pc = "poll"
                          /\ tasks[i].elapsed = 120
                          /\ now >= tasks[i].spawned_at + 120
                          /\ tasks'[i].pc = "ssh"
                    /\ watchdog' = watchdog
                 \/ /\ watchdog.pc = "check"
                    /\ now - last_event_time >= 7200
                    /\ watchdog'.pc = "ssh"
                    /\ tasks' = tasks
        /\ disable_calls' <= Len(tasks') + Len(wd_fires') ]_vars

C20_Witness ==
    /\ disable_calls = 3
    /\ Len(tasks) = 2
    /\ tasks[1].pc = "expired"
    /\ tasks[2].pc = "expired"
    /\ Len(wd_fires) = 1
    /\ wd_fires[1].result = "success"

====
